---- MODULE Spec2Model ----
(***************************************************************************)
(* State-machine model of src/src/modules/jest/globals.ts: the jest        *)
(* globals of the contract test environment.  deployContract is the only   *)
(* entry point; validateContract ("ensureFresh"), handleOutdatedBuildfile  *)
(* and _setSigner are reached through it.  Every `await` of the source is  *)
(* a step boundary: what runs between two awaits is one atomic action.     *)
(***************************************************************************)
EXTENDS Integers, Sequences, FiniteSets, TLC

\* ------------------------------------------------------------------ bounds
\* number of deployContract calls made in one run
MaxCalls == 2
\* number of deployContract calls that can be in flight together
MaxProcs == 2
\* number of changes the test's surroundings make to files / environment
MaxEnvChanges == 1

Procs == 1..MaxProcs

\* ------------------------------------------------------------ small domains
Contracts == {"Foo", "Bar"}
Storages == {"s0"}
NoAddress == "none"

\* the signer of the configuration is a faucet account or a secret key
DefaultSigners == {"faucetDefault", "keyDefault"}
OtherSigners == {"keyAlice"}
NoSigner == "nobody"

\* source texts of a contract file; "bad" does not compile
NoSource == "none"
SourceTexts == {"v1", "v2", "bad"}

\* raw JSON-michelson payloads of a build file
Payloads == {"", "{", "null", "[]", "[1]", "[2]"}

VARIABLES
  source,        \* Artifact Store: contract name -> source text or NoSource
  build,         \* Artifact Store: contract name -> build record
  cfgFile,       \* config.json on disk: its autoCompile flag
  useOldBuild,   \* process.env.USE_OLD_BUILD === 'true'
  registry,      \* jestGlobal.tezosDeployedContracts
  suppliedRegistry, \* history: the registry the run was given
  defaultSigner, \* jestGlobal.tezosDefaultSigner
  isSignerSet,   \* module variable isSignerSet
  provider,      \* the signer Tezos currently signs with
  config,        \* module variable config (memoized configuration)
  checked,       \* jestGlobal._checkedContracts
  calls,         \* the deployContract calls in flight or last finished
  envChanges,    \* how many changes the surroundings have made
  started,       \* how many deployContract calls the run has made
  okCode,        \* history: the code of the first validation that returned code
  parsed,        \* history: has a validation of the contract run to a parsed build
  prev,          \* history: how the last finished validation of a contract ended
  activations    \* history: how many credential activations have succeeded

vars == <<source, build, cfgFile, useOldBuild, registry, suppliedRegistry,
          defaultSigner, isSignerSet, provider, config, checked, calls,
          envChanges, started, okCode, parsed, prev, activations>>

envVars == <<source, build, cfgFile, useOldBuild, envChanges>>
fixedVars == <<registry, suppliedRegistry, defaultSigner, started>>
signerVars == <<isSignerSet, provider, activations>>
histVars == <<okCode, parsed, prev>>

\* ------------------------------------------------------------ collaborators
\* './types' isFaucet: a faucet account carries email/mnemonic, a key does not
isFaucet(signer) == signer = "faucetDefault"

\* bundle.getContractFile
getContractFile(contractName) == "contracts/" \o contractName

\* bundle.exists
exists(contractName) == source[contractName] # NoSource

NoBuild == [present |-> FALSE, sourcePath |-> "", hash |-> "", michelson |-> ""]
BuildRecord(path, h, m) ==
  [present |-> TRUE, sourcePath |-> path, hash |-> h, michelson |-> m]

\* bundle.buildFileExists
buildFileExists(contractName) == build[contractName].present

\* bundle.generateHash: a digest of the text, nothing else
generateHash(text) ==
  CASE text = "v1" -> "H1"
    [] text = "v2" -> "H2"
    [] OTHER -> "H3"

\* BuildErrorCodes and bundle.isBuildValid (decision order of the Build Validator)
isBuildValid(sourcePath, hash, buildFile) ==
  IF buildFile.michelson = "" THEN "MICHELSON_MISSING"
  ELSE IF buildFile.sourcePath # sourcePath THEN "INVALID_SOURCE_PATH"
  ELSE IF buildFile.hash # hash THEN "INVALID_HASH"
  ELSE "true"

\* commands/compile: turns the current source into a fresh build record
Compilable(text) == text \in {"v1", "v2"}
CompiledPayload(text) == IF text = "v1" THEN "[1]" ELSE "[2]"
CompiledBuild(contractName, text) ==
  BuildRecord(getContractFile(contractName), generateHash(text), CompiledPayload(text))

\* ------------------------------------------------------------------- values
\* values of the cache and of JSON.parse; `items` is the instruction sequence
CUndefined == [kind |-> "undefined", items |-> <<>>]
CFalse == [kind |-> "false", items |-> <<>>]
JNull == [kind |-> "null", items |-> <<>>]
JArray(s) == [kind |-> "array", items |-> s]

\* JSON.parse of a payload: a syntax error, or the value the text denotes
ParseJSON(m) ==
  CASE m = "null" -> [ok |-> TRUE, value |-> JNull]
    [] m = "[]" -> [ok |-> TRUE, value |-> JArray(<<>>)]
    [] m = "[1]" -> [ok |-> TRUE, value |-> JArray(<<"op1">>)]
    [] m = "[2]" -> [ok |-> TRUE, value |-> JArray(<<"op2">>)]
    [] OTHER -> [ok |-> FALSE, value |-> CUndefined]

\* JavaScript truthiness of a cache entry / parsed value: every array is truthy
Truthy(v) == v.kind = "array"


\* mutant: an empty code sequence is taken for "nothing cached"
CacheHit_NonEmpty(entry) == Truthy(entry) /\ entry.items # <<>>

\* mutant: any entry that was ever written, the false sentinel too, is served
CacheHit_AnyEntry(entry) == entry.kind # "undefined"

\* line 71: `if (jestGlobal._checkedContracts[contractName])`
CacheHit(entry) == Truthy(entry)

\* line 137: `if (!code)`
NoCode(code) == ~Truthy(code)

\* line 47: `USE_OLD_BUILD === 'true'`, read from process.env at each call
OverrideSet == useOldBuild

\* mutant: the configuration is read from disk at every outdated build
ConfigLoaded_Never == FALSE

\* line 51: `if (!config)`
ConfigLoaded == config.loaded

\* ------------------------------------------------------------------- calls
\* the files and settings a call can depend on
Env == [source |-> source, build |-> build, cfgFile |-> cfgFile,
        useOldBuild |-> useOldBuild]

\* how a validation ended: "none" (not yet), "ok" (returned) or "err" (threw),
\* with the surroundings it started and ended in
Ending(vres, err, envStart, env) ==
  [vres |-> vres, err |-> err, envStart |-> envStart, env |-> env]

\* A deployContract call: its position, arguments and locals, followed by a
\* record of what it did (counts of collaborator calls, values it consulted).
IdleCall(env, cache) ==
  [pc |-> "idle", name |-> "", storage |-> "", signer |-> NoSigner,
   hash |-> "", buildFile |-> NoBuild, code |-> CUndefined,
   err |-> "", handle |-> NoAddress,
   hit |-> FALSE, vres |-> "none", outcome |-> "",
   ovUsed |-> "unread", acUsed |-> "unread",
   latchAtBegin |-> FALSE, deployedAtBegin |-> FALSE,
   configAtBegin |-> [loaded |-> FALSE, autoCompile |-> FALSE],
   nActivate |-> 0, stepFourSet |-> FALSE,
   nFetch |-> 0, fetchAddr |-> NoAddress,
   nConfigReload |-> 0, nValidate |-> 0, nSourceExists |-> 0,
   nBuildExists |-> 0, nReadSource |-> 0, nReadBuild |-> 0,
   nClassify |-> 0, nConfigLoad |-> 0, nCompile |-> 0, nParse |-> 0,
   nOriginate |-> 0, origSigner |-> NoSigner, origCode |-> CUndefined,
   priorOk |-> CUndefined, before |-> Ending("none", "", env, env),
   envStart |-> env, envChecked |-> env,
   cacheStart |-> cache, cacheEnd |-> cache]

Terminal(cr) == cr.pc \in {"done", "failed"}
Free(cr) == cr.pc = "idle" \/ Terminal(cr)
Quiet == \A q \in Procs : Free(calls[q])

\* a rejected promise leaves deployContract: the call is over
Fail(cr, e, cache) == [cr EXCEPT !.pc = "failed", !.err = e, !.cacheEnd = cache]
\* deployContract returns a contract handle
Return(cr, handle, cache) ==
  [cr EXCEPT !.pc = "done", !.handle = handle, !.cacheEnd = cache]
\* a throw inside validateContract: nothing catches it in deployContract
FailValidate(cr, e, cache) ==
  [Fail(cr, e, cache) EXCEPT !.vres = "err", !.envChecked = Env]

\* history: what the step that takes a call from `old` to `new` adds
Record(old, new) ==
  LET c == new.name
      ended == old.vres = "none" /\ new.vres # "none"
  IN /\ prev' = IF ended
                THEN [prev EXCEPT ![c] =
                        Ending(new.vres, new.err, new.envStart, Env)]
                ELSE prev
     /\ okCode' = IF ended /\ new.vres = "ok" /\ new.code.kind = "array"
                     /\ okCode[c] = CUndefined
                  THEN [okCode EXCEPT ![c] = new.code]
                  ELSE okCode
     /\ parsed' = IF new.nParse > old.nParse /\ new.vres = "ok"
                     /\ new.nSourceExists = 1 /\ new.nBuildExists = 1
                     /\ new.nReadSource = 1 /\ new.nReadBuild = 1
                     /\ new.nClassify = 1
                     /\ new.err \notin {"CompileFailed", "EditedSinceCompile"}
                  THEN [parsed EXCEPT ![c] = TRUE]
                  ELSE parsed

\* mutant: the latch is not looked at
SetSignerPath_NoLatch(signer) ==
  IF isFaucet(signer) THEN "import" ELSE "set"

\* mutant: only a faucet account is held back by the latch
SetSignerPath_FaucetLatch(signer) ==
  IF isFaucet(signer) THEN (IF isSignerSet THEN "skip" ELSE "import")
  ELSE "set"

\* lines 25-39, the part of _setSigner(signer) that runs before it suspends:
\* "skip" (latch set), "import" (await importKey) or "set" (setProvider)
SetSignerPath(signer) ==
  IF isSignerSet THEN "skip"
  ELSE IF isFaucet(signer) THEN "import"
  ELSE "set"

\* the call has returned the handle of a contract it originated under the name
Deployed(cr, contractName) ==
  cr.pc = "done" /\ cr.name = contractName /\ cr.nOriginate = 1

\* lines 117-119: deployContract is called; _setSigner(tezosDefaultSigner).
\* (deployedAtBegin notes whether the call before it deployed the same contract.)
Begin(p, contractName, storage, signer) ==
  /\ started < MaxCalls
  /\ Free(calls[p])
  /\ \A q \in Procs : q < p => ~Free(calls[q])
  /\ started' = started + 1
  /\ LET cr == [IdleCall(Env, checked) EXCEPT
                  !.name = contractName, !.storage = storage,
                  !.signer = signer, !.latchAtBegin = isSignerSet,
                  !.deployedAtBegin = Deployed(calls[p], contractName),
                  !.configAtBegin = config]
         path == SetSignerPath(defaultSigner)
     IN CASE path = "skip" ->
               /\ calls' = [calls EXCEPT ![p] = [cr EXCEPT !.pc = "registry"]]
               /\ UNCHANGED signerVars
          [] path = "import" ->
               /\ calls' = [calls EXCEPT ![p] =
                     [cr EXCEPT !.pc = "importKey", !.nActivate = @ + 1]]
               /\ UNCHANGED signerVars
          [] path = "set" ->
               /\ provider' = defaultSigner
               /\ isSignerSet' = TRUE
               /\ activations' = activations + 1
               /\ calls' = [calls EXCEPT ![p] =
                     [cr EXCEPT !.pc = "registry", !.nActivate = @ + 1]]
  /\ UNCHANGED <<envVars, registry, suppliedRegistry, defaultSigner, config,
                 checked, histVars>>

\* lines 31 and 38: importKey settles; on success the latch is set
ImportKeyDone(p, ok) ==
  /\ calls[p].pc = "importKey"
  /\ IF ok
     THEN /\ provider' = defaultSigner
          /\ isSignerSet' = TRUE
          /\ activations' = activations + 1
          /\ calls' = [calls EXCEPT ![p] = [@ EXCEPT !.pc = "registry"]]
     ELSE /\ calls' = [calls EXCEPT ![p] = Fail(@, "ActivationFailed", checked)]
          /\ UNCHANGED signerVars
  /\ UNCHANGED <<envVars, fixedVars, config, checked, histVars>>

\* line 121: `tezosDeployedContracts && tezosDeployedContracts[contractName]`
Pinned(contractName) == registry[contractName] # NoAddress

\* lines 121-126 and 134: the registry decides between fetch and validation
CheckRegistry(p) ==
  /\ calls[p].pc = "registry"
  /\ calls' = [calls EXCEPT ![p] =
        IF Pinned(calls[p].name)
        THEN [@ EXCEPT !.pc = "fetch", !.nFetch = @ + 1,
                       !.fetchAddr = registry[calls[p].name]]
        ELSE [@ EXCEPT !.pc = "readConfig", !.nConfigReload = @ + 1]]
  /\ UNCHANGED <<envVars, fixedVars, signerVars, config, checked, histVars>>

\* mutant: a failed fetch falls through to validation and redeployment
FetchDone_FallThrough(p, ok) ==
  /\ calls[p].pc = "fetch"
  /\ calls' = [calls EXCEPT ![p] =
        IF ok THEN Return(@, calls[p].fetchAddr, checked)
        ELSE [@ EXCEPT !.pc = "readConfig", !.nConfigReload = @ + 1]]
  /\ UNCHANGED <<envVars, fixedVars, signerVars, config, checked, histVars>>

\* mutant: a failed fetch is tried a second time before the call gives up
FetchDone_RetryOnce(p, ok) ==
  /\ calls[p].pc = "fetch"
  /\ calls' = [calls EXCEPT ![p] =
        IF ok THEN Return(@, calls[p].fetchAddr, checked)
        ELSE IF calls[p].nFetch < 2 THEN [@ EXCEPT !.nFetch = @ + 1]
        ELSE Fail(@, "FetchFailed", checked)]
  /\ UNCHANGED <<envVars, fixedVars, signerVars, config, checked, histVars>>

\* lines 126-131: Tezos.contract.at settles
FetchDone(p, ok) ==
  /\ calls[p].pc = "fetch"
  /\ calls' = [calls EXCEPT ![p] =
        IF ok THEN Return(@, calls[p].fetchAddr, checked)
        ELSE Fail(@, "FetchFailed", checked)]
  /\ UNCHANGED <<envVars, fixedVars, signerVars, config, checked, histVars>>

\* lines 104-114: JSON.parse of the build file read at line 90, then the
\* cache write and the return; a syntax error is rethrown as MalformedCode
ParsedCall(cr, cache) ==
  LET r == ParseJSON(cr.buildFile.michelson)
      counted == [cr EXCEPT !.nParse = @ + 1]
  IN IF r.ok
     THEN [counted EXCEPT !.pc = "validated", !.code = r.value, !.vres = "ok",
                          !.envChecked = Env]
     ELSE FailValidate(counted, "MalformedCode", cache)

\* mutant: the syntax error is swallowed and the default `[]` of line 105 cached
ParsedCache_Swallow(cr, cache) ==
  LET r == ParseJSON(cr.buildFile.michelson)
  IN [cache EXCEPT ![cr.name] = IF r.ok THEN r.value ELSE JArray(<<>>)]

\* line 112: `_checkedContracts[contractName] = code`
ParsedCache(cr, cache) ==
  LET r == ParseJSON(cr.buildFile.michelson)
  IN IF r.ok THEN [cache EXCEPT ![cr.name] = r.value] ELSE cache

\* mutant: the cache object is created anew at every validation that misses
Sentinel_Reset(cache, contractName) ==
  [d \in Contracts |-> IF d = contractName THEN CFalse ELSE CUndefined]

\* lines 66-68 and 76: the cache object is created once, and the entry of
\* the contract under validation, no other, is set to false
Sentinel(cache, contractName) == [cache EXCEPT ![contractName] = CFalse]

\* mutant: the build file is looked for before the source file
Precondition_BuildFirst(contractName) ==
  IF ~buildFileExists(contractName) THEN "NeverCompiled"
  ELSE IF ~exists(contractName) THEN "SourceMissing"
  ELSE "ok"

\* lines 78-85: the two existence checks, in their order
Precondition(contractName) ==
  IF ~exists(contractName) THEN "SourceMissing"
  ELSE IF ~buildFileExists(contractName) THEN "NeverCompiled"
  ELSE "ok"

\* lines 134-136 and 65-87: readConfigFile settles (its result is dropped),
\* validateContract runs up to its first await
EnterValidate(p) ==
  /\ calls[p].pc = "readConfig"
  /\ LET c == calls[p].name
         cr == [calls[p] EXCEPT !.nValidate = @ + 1, !.priorOk = okCode[c],
                                !.before = prev[c], !.envStart = Env]
         sentinel == Sentinel(checked, c)
         looked == [cr EXCEPT !.nSourceExists = @ + 1]
         looked2 == [looked EXCEPT !.nBuildExists = @ + 1]
         new == IF CacheHit(checked[c])
                THEN [cr EXCEPT !.pc = "validated", !.code = checked[c],
                                !.hit = TRUE, !.vres = "ok", !.envChecked = Env]
                ELSE IF Precondition(c) = "SourceMissing"
                     THEN FailValidate(looked, "SourceMissing", sentinel)
                ELSE IF Precondition(c) = "NeverCompiled"
                     THEN FailValidate(looked2, "NeverCompiled", sentinel)
                ELSE [looked2 EXCEPT !.pc = "readContract"]
     IN /\ checked' = IF CacheHit(checked[c]) THEN checked ELSE sentinel
        /\ calls' = [calls EXCEPT ![p] = new]
        /\ Record(calls[p], new)
  /\ UNCHANGED <<envVars, fixedVars, signerVars, config>>

\* lines 87-90: readContract settles, the hash is computed, readBuildFile starts
ReadContractDone(p) ==
  /\ calls[p].pc = "readContract"
  /\ calls' = [calls EXCEPT ![p] =
        [@ EXCEPT !.pc = "readBuildFile", !.nReadSource = @ + 1,
                  !.hash = generateHash(source[calls[p].name])]]
  /\ UNCHANGED <<envVars, fixedVars, signerVars, config, checked, histVars>>

\* mutant: autoCompile is consulted before USE_OLD_BUILD
OutdatedCall_ConfigFirst(cr) ==
  LET seen == [cr EXCEPT !.ovUsed = IF OverrideSet THEN "true" ELSE "false"]
  IN IF ~ConfigLoaded
     THEN [seen EXCEPT !.pc = "loadConfig", !.nConfigLoad = @ + 1]
     ELSE IF OverrideSet THEN [seen EXCEPT !.pc = "outdatedHandled"]
     ELSE IF ~config.autoCompile
          THEN FailValidate([seen EXCEPT !.acUsed = "false"],
                            "EditedSinceCompile", checked)
     ELSE [seen EXCEPT !.pc = "compile", !.acUsed = "true", !.nCompile = @ + 1]

\* lines 44-61, the part of handleOutdatedBuildfile that runs before it
\* suspends, applied to the call record
OutdatedCall(cr) ==
  LET seen == [cr EXCEPT !.ovUsed = IF OverrideSet THEN "true" ELSE "false"]
  IN IF OverrideSet THEN [seen EXCEPT !.pc = "outdatedHandled"]
     ELSE IF ~ConfigLoaded
          THEN [seen EXCEPT !.pc = "loadConfig", !.nConfigLoad = @ + 1]
     ELSE IF ~config.autoCompile
          THEN FailValidate([seen EXCEPT !.acUsed = "false"],
                            "EditedSinceCompile", checked)
     ELSE [seen EXCEPT !.pc = "compile", !.acUsed = "true", !.nCompile = @ + 1]

\* mutant: a build compiled from another path is recompiled like an edited one
SwitchCall_RecoverPath(cr, verdict) ==
  CASE verdict = "MICHELSON_MISSING" -> FailValidate(cr, "MichelsonMissing", checked)
    [] verdict = "INVALID_HASH" -> OutdatedCall(cr)
    [] verdict = "INVALID_SOURCE_PATH" -> OutdatedCall(cr)
    [] verdict = "true" -> [cr EXCEPT !.pc = "parse"]

\* lines 92-102: the switch on the validator's verdict; "parse" stands for
\* falling out of the switch without an await
SwitchCall(cr, verdict) ==
  CASE verdict = "MICHELSON_MISSING" -> FailValidate(cr, "MichelsonMissing", checked)
    [] verdict = "INVALID_HASH" -> OutdatedCall(cr)
    [] verdict = "INVALID_SOURCE_PATH" -> FailValidate(cr, "PathMismatch", checked)
    [] verdict = "true" -> [cr EXCEPT !.pc = "parse"]

\* lines 90-114: readBuildFile settles, the build is classified and the
\* switch is taken; a valid build is parsed and cached in the same step
ReadBuildFileDone(p) ==
  /\ calls[p].pc = "readBuildFile"
  /\ LET c == calls[p].name
         verdict == isBuildValid(getContractFile(c), calls[p].hash, build[c])
         cr == [calls[p] EXCEPT !.buildFile = build[c], !.nReadBuild = @ + 1,
                                !.nClassify = @ + 1, !.outcome = verdict]
         switched == SwitchCall(cr, verdict)
         cache == IF switched.pc = "parse" THEN ParsedCache(cr, checked) ELSE checked
         new == IF switched.pc = "parse" THEN ParsedCall(cr, cache) ELSE switched
     IN /\ checked' = cache
        /\ calls' = [calls EXCEPT ![p] = new]
        /\ Record(calls[p], new)
  /\ UNCHANGED <<envVars, fixedVars, signerVars, config>>

\* mutant: the compiler is started without looking at autoCompile
LoadConfigDone_AlwaysCompile(p) ==
  /\ calls[p].pc = "loadConfig"
  /\ config' = [loaded |-> TRUE, autoCompile |-> cfgFile]
  /\ LET new == [calls[p] EXCEPT !.pc = "compile", !.nCompile = @ + 1,
                    !.acUsed = IF cfgFile THEN "true" ELSE "false"]
     IN /\ calls' = [calls EXCEPT ![p] = new]
        /\ Record(calls[p], new)
  /\ UNCHANGED <<envVars, fixedVars, signerVars, checked>>

\* lines 52-61: readConfigFile settles inside handleOutdatedBuildfile; the
\* configuration is memoized and decides between the error and the compiler
LoadConfigDone(p) ==
  /\ calls[p].pc = "loadConfig"
  /\ config' = [loaded |-> TRUE, autoCompile |-> cfgFile]
  /\ LET new == IF ~cfgFile
                THEN FailValidate([calls[p] EXCEPT !.acUsed = "false"],
                                  "EditedSinceCompile", checked)
                ELSE [calls[p] EXCEPT !.pc = "compile", !.acUsed = "true",
                                      !.nCompile = @ + 1]
     IN /\ calls' = [calls EXCEPT ![p] = new]
        /\ Record(calls[p], new)
  /\ UNCHANGED <<envVars, fixedVars, signerVars, checked>>

\* mutant: after a successful compile the source is hashed and the build
\* file read and classified again
CompileDone_Revalidate(p) ==
  /\ calls[p].pc = "compile"
  /\ LET c == calls[p].name
         ok == exists(c) /\ Compilable(source[c])
         new == IF ok THEN [calls[p] EXCEPT !.pc = "readContract"]
                ELSE FailValidate(calls[p], "CompileFailed", checked)
     IN /\ build' = IF ok THEN [build EXCEPT ![c] = CompiledBuild(c, source[c])]
                    ELSE build
        /\ calls' = [calls EXCEPT ![p] = new]
        /\ Record(calls[p], new)
  /\ UNCHANGED <<source, cfgFile, useOldBuild, envChanges, fixedVars,
                 signerVars, config, checked>>

\* lines 59-62: compile settles; on success it has written a fresh build file
CompileDone(p) ==
  /\ calls[p].pc = "compile"
  /\ LET c == calls[p].name
         ok == exists(c) /\ Compilable(source[c])
         new == IF ok THEN [calls[p] EXCEPT !.pc = "outdatedHandled"]
                ELSE FailValidate(calls[p], "CompileFailed", checked)
     IN /\ build' = IF ok THEN [build EXCEPT ![c] = CompiledBuild(c, source[c])]
                    ELSE build
        /\ calls' = [calls EXCEPT ![p] = new]
        /\ Record(calls[p], new)
  /\ UNCHANGED <<source, cfgFile, useOldBuild, envChanges, fixedVars,
                 signerVars, config, checked>>

\* lines 96-114: handleOutdatedBuildfile has returned; parse, cache, return
ParseAndStore(p) ==
  /\ calls[p].pc = "outdatedHandled"
  /\ LET cache == ParsedCache(calls[p], checked)
         new == ParsedCall(calls[p], cache)
     IN /\ checked' = cache
        /\ calls' = [calls EXCEPT ![p] = new]
        /\ Record(calls[p], new)
  /\ UNCHANGED <<envVars, fixedVars, signerVars, config>>

\* lines 136-149: validateContract has returned; the falsy-code guard, the
\* un-awaited _setSigner(signer), and the origination request.  (A faucet
\* signer met with the latch unset would start an import that nothing awaits;
\* step 1 of the same call has set the latch, see LatchSetAtStepFour.)
Originate(p) ==
  /\ calls[p].pc = "validated"
  /\ LET path == SetSignerPath(calls[p].signer)
         signerNow == IF path = "set" THEN calls[p].signer ELSE provider
     IN IF NoCode(calls[p].code)
        THEN /\ calls' = [calls EXCEPT ![p] = Fail(@, "UnableToProcess", checked)]
             /\ UNCHANGED signerVars
        ELSE /\ provider' = signerNow
             /\ isSignerSet' = (isSignerSet \/ path = "set")
             /\ activations' = IF path = "set" THEN activations + 1 ELSE activations
             /\ calls' = [calls EXCEPT ![p] =
                   [@ EXCEPT !.pc = "originate", !.nOriginate = @ + 1,
                             !.stepFourSet = (path # "skip"),
                             !.origSigner = signerNow,
                             !.origCode = calls[p].code]]
  /\ UNCHANGED <<envVars, fixedVars, config, checked, histVars>>

\* lines 146-155: the origination request settles
OriginateDone(p, ok) ==
  /\ calls[p].pc = "originate"
  /\ calls' = [calls EXCEPT ![p] =
        IF ok THEN [@ EXCEPT !.pc = "confirm"]
        ELSE Fail(@, "OriginateFailed", checked)]
  /\ UNCHANGED <<envVars, fixedVars, signerVars, config, checked, histVars>>

\* mutant: the address of the new contract is written back into the registry
ConfirmDone_WriteBack(p, ok) ==
  /\ calls[p].pc = "confirm"
  /\ calls' = [calls EXCEPT ![p] =
        IF ok THEN Return(@, "KT1new", checked)
        ELSE Fail(@, "OriginateFailed", checked)]
  /\ registry' = IF ok THEN [registry EXCEPT ![calls[p].name] = "KT1new"]
                  ELSE registry
  /\ UNCHANGED <<envVars, suppliedRegistry, defaultSigner, started, signerVars,
                 config, checked, histVars>>

\* lines 151-155: op.contract() settles; the handle is returned and nothing
\* is stored
ConfirmDone(p, ok) ==
  /\ calls[p].pc = "confirm"
  /\ calls' = [calls EXCEPT ![p] =
        IF ok THEN Return(@, "KT1new", checked)
        ELSE Fail(@, "OriginateFailed", checked)]
  /\ UNCHANGED <<envVars, fixedVars, signerVars, config, checked, histVars>>

\* ------------------------------------------------------------ surroundings
\* the run has made a call, none is in flight and another will follow
BetweenCalls == Quiet /\ started > 0 /\ started < MaxCalls

\* the contracts whose files the calls read (a pinned one is only fetched)
Validated == {c \in Contracts : registry[c] = NoAddress}

progVars == <<fixedVars, signerVars, config, checked, calls, histVars>>

\* Between calls the test may edit, delete or restore a source file, ...
EditSource(c, text) ==
  /\ BetweenCalls
  /\ envChanges < MaxEnvChanges
  /\ text # source[c]
  /\ source' = [source EXCEPT ![c] = text]
  /\ envChanges' = envChanges + 1
  /\ UNCHANGED <<build, cfgFile, useOldBuild, progVars>>

\* ... compile a contract from the command line, ...
ExternalCompile(c) ==
  /\ BetweenCalls
  /\ envChanges < MaxEnvChanges
  /\ exists(c) /\ Compilable(source[c])
  /\ build[c] # CompiledBuild(c, source[c])
  /\ build' = [build EXCEPT ![c] = CompiledBuild(c, source[c])]
  /\ envChanges' = envChanges + 1
  /\ UNCHANGED <<source, cfgFile, useOldBuild, progVars>>

\* ... flip autoCompile in config.json, ...
SetAutoCompile ==
  /\ BetweenCalls
  /\ envChanges < MaxEnvChanges
  /\ cfgFile' = ~cfgFile
  /\ envChanges' = envChanges + 1
  /\ UNCHANGED <<source, build, useOldBuild, progVars>>

\* ... or set / clear USE_OLD_BUILD in process.env.
SetUseOldBuild ==
  /\ BetweenCalls
  /\ envChanges < MaxEnvChanges
  /\ useOldBuild' = ~useOldBuild
  /\ envChanges' = envChanges + 1
  /\ UNCHANGED <<source, build, cfgFile, progVars>>

\* ------------------------------------------------------------ initial state
\* The files of a contract when the run starts: every way validation can go
FileStates(c) ==
  LET own == getContractFile(c)
  IN {<<NoSource, NoBuild>>, <<NoSource, BuildRecord(own, "H1", "[1]")>>,
      <<"v1", NoBuild>>, <<"bad", BuildRecord(own, "H1", "[1]")>>}
     \cup {<<"v1", BuildRecord("contracts/Elsewhere", "H1", m)>> : m \in {"", "[1]"}}
     \cup {<<"v1", BuildRecord(own, "H1", m)>> : m \in Payloads \ {"[2]"}}
     \cup {<<"v2", BuildRecord(own, "H1", m)>> : m \in Payloads \ {"", "[2]"}}

\* a contract compiled from its first text, which is still there or edited
Compiled(c) == BuildRecord(getContractFile(c), "H1", "[1]")
PlainStates(c) == {<<"v1", Compiled(c)>>, <<"v2", Compiled(c)>>}

\* the registry the run is given: empty, or one contract pinned to an address
NothingPinned == [c \in Contracts |-> NoAddress]
BarPinned == [c \in Contracts |-> IF c = "Bar" THEN "KT1A" ELSE NoAddress]

\* lines 14, 22, 42: no signer set, no configuration loaded, no contract
\* checked.  The run starts in one of two families of surroundings: every
\* file state of Foo under every setting of autoCompile and USE_OLD_BUILD,
\* or every registry and kind of default signer over plain files.
Init ==
  /\ \E foo \in FileStates("Foo") :
        /\ source = [c \in Contracts |-> IF c = "Foo" THEN foo[1] ELSE "v2"]
        /\ build = [c \in Contracts |-> IF c = "Foo" THEN foo[2] ELSE Compiled(c)]
        /\ cfgFile \in BOOLEAN
        /\ useOldBuild \in BOOLEAN
        /\ registry \in {NothingPinned, BarPinned}
        /\ defaultSigner \in DefaultSigners
        /\ \/ registry = NothingPinned /\ defaultSigner = "keyDefault"
           \/ foo \in PlainStates("Foo") /\ cfgFile /\ ~useOldBuild
  /\ suppliedRegistry = registry
  /\ isSignerSet = FALSE
  /\ provider = NoSigner
  /\ config = [loaded |-> FALSE, autoCompile |-> FALSE]
  /\ checked = [c \in Contracts |-> CUndefined]
  /\ calls = [p \in Procs |-> IdleCall(Env, checked)]
  /\ envChanges = 0
  /\ started = 0
  /\ okCode = [c \in Contracts |-> CUndefined]
  /\ parsed = [c \in Contracts |-> FALSE]
  /\ prev = [c \in Contracts |-> Ending("none", "", Env, Env)]
  /\ activations = 0

\* ------------------------------------------------------------ specifications
Step(p) ==
  \/ \E ok \in BOOLEAN : ImportKeyDone(p, ok)
  \/ CheckRegistry(p)
  \/ \E ok \in BOOLEAN : FetchDone(p, ok)
  \/ EnterValidate(p)
  \/ ReadContractDone(p)
  \/ ReadBuildFileDone(p)
  \/ LoadConfigDone(p)
  \/ CompileDone(p)
  \/ ParseAndStore(p)
  \/ Originate(p)
  \/ \E ok \in BOOLEAN : OriginateDone(p, ok)
  \/ \E ok \in BOOLEAN : ConfirmDone(p, ok)

Surroundings ==
  \/ \E c \in Validated, text \in {"v1", "v2", NoSource} : EditSource(c, text)
  \/ \E c \in Validated : ExternalCompile(c)
  \/ SetAutoCompile
  \/ SetUseOldBuild

Signers == {defaultSigner} \cup OtherSigners

\* the test awaits each deployContract before making the next call
SeqBegin ==
  \E p \in Procs, c \in Contracts, st \in Storages, sg \in Signers :
     Quiet /\ Begin(p, c, st, sg)

Next ==
  \/ SeqBegin
  \/ \E p \in Procs : Step(p)
  \/ Surroundings

Spec == Init /\ [][Next]_vars

\* every collaborator call settles and the event loop then runs the
\* continuation of the call that awaited it
FairSpec == Spec /\ \A p \in Procs : WF_vars(Step(p))

\* a test that does not await: a call may begin while others are suspended
AnyBegin ==
  \E p \in Procs, c \in Contracts, st \in Storages, sg \in Signers :
     Begin(p, c, st, sg)

ConcNext ==
  \/ AnyBegin
  \/ \E p \in Procs : Step(p)
  \/ Surroundings

ConcSpec == Init /\ [][ConcNext]_vars

\* the calls are made one after another: only the first slot is ever used
OneAtATime == \A p \in Procs : p > 1 => calls[p].pc = "idle"

\* step 1 of a call has set the latch before its step 4 runs
LatchSetAtStepFour == \A p \in Procs : calls[p].pc = "validated" => isSignerSet

\* ------------------------------------------------------------------ claims
NoValidationWork(cr) ==
  /\ cr.nSourceExists = 0 /\ cr.nBuildExists = 0 /\ cr.nReadSource = 0
  /\ cr.nReadBuild = 0 /\ cr.nClassify = 0 /\ cr.nConfigLoad = 0
  /\ cr.nCompile = 0 /\ cr.nParse = 0

\* C1: once a validation of C has returned code (a sequence, the empty one
\* included), the cache entry of C stays that code and every later
\* validateContract(C) returns it without an existence check, a read of the
\* source or of the build file, a classification, a compile or a parse,
\* whatever has happened to the files since.  (A payload that parses to a
\* falsy value such as null is returned but is no code: it is not served.)
C1_ServedFromCache ==
  /\ \A c \in Contracts : okCode[c] # CUndefined => checked[c] = okCode[c]
  /\ \A p \in Procs :
        (calls[p].nValidate = 1 /\ calls[p].priorOk # CUndefined) =>
           /\ calls[p].hit
           /\ calls[p].vres = "ok"
           /\ calls[p].code = calls[p].priorOk
           /\ NoValidationWork(calls[p])

\* a second call is served the empty sequence although the files changed
C1_Witness ==
  \E p \in Procs :
     /\ calls[p].hit
     /\ calls[p].code = JArray(<<>>)
     /\ calls[p].before.vres = "ok"
     /\ calls[p].before.env # calls[p].envStart

ValidationErrors ==
  {"SourceMissing", "NeverCompiled", "MichelsonMissing", "PathMismatch",
   "EditedSinceCompile", "CompileFailed", "MalformedCode"}

\* C2: the cache entry of C is something other than the false sentinel (or
\* nothing at all) only if a validation of C has passed the existence checks,
\* the classification (and the compile it asked for) and the parse; and when
\* a validation of C throws - any of the seven errors - with no code returned
\* for C before, the entry of C is the false sentinel when the call returns.
C2_CacheOnlyAfterSuccess ==
  /\ \A c \in Contracts :
        checked[c] \notin {CUndefined, CFalse} => parsed[c]
  /\ \A p \in Procs :
        (calls[p].vres = "err" /\ calls[p].priorOk = CUndefined) =>
           /\ calls[p].pc = "failed"
           /\ calls[p].err \in ValidationErrors
           /\ calls[p].cacheEnd[calls[p].name] = CFalse
           /\ checked[calls[p].name] = CFalse

\* a call that recompiled and then could not parse has left the sentinel
C2_Witness ==
  \E p \in Procs :
     /\ calls[p].err = "MalformedCode"
     /\ calls[p].nCompile = 1
     /\ checked[calls[p].name] = CFalse
     /\ \E c \in Contracts : checked[c].kind = "array" /\ parsed[c]

\* C3: after a validation of C that threw, the next validateContract(C) is
\* not served from the cache: it starts again at the existence checks, reads
\* and classifies the build file again unless an existence check stops it,
\* and, the source, the build file, USE_OLD_BUILD and config.json being what
\* they were throughout the failed call, throws the same error.
C3_FailureNotCached ==
  \A p \in Procs :
     (calls[p].nValidate = 1 /\ calls[p].before.vres = "err") =>
        /\ ~calls[p].hit
        /\ calls[p].nSourceExists = 1
        /\ (calls[p].vres = "ok"
              \/ calls[p].err \in ValidationErrors \ {"SourceMissing", "NeverCompiled"})
             => calls[p].nReadBuild = 1 /\ calls[p].nClassify = 1
        /\ (/\ calls[p].vres # "none"
            /\ calls[p].before.envStart = calls[p].before.env
            /\ calls[p].before.env = calls[p].envStart
            /\ calls[p].envStart = calls[p].envChecked)
             => calls[p].vres = "err" /\ calls[p].err = calls[p].before.err

\* the edited-since-compile error is thrown a second time, nothing changed
C3_Witness ==
  \E p \in Procs :
     /\ calls[p].before.vres = "err"
     /\ calls[p].before.err = "EditedSinceCompile"
     /\ calls[p].before.env = calls[p].envStart
     /\ calls[p].err = "EditedSinceCompile"
     /\ calls[p].nClassify = 1

\* the outcome of lines 104-114 for the build file a call holds: the value
\* parsed from it, returned and cached, or MalformedCode
ParseOutcome(cr) ==
  /\ cr.nParse = 1
  /\ cr.vres # "none"
  /\ IF ParseJSON(cr.buildFile.michelson).ok
     THEN /\ cr.vres = "ok"
          /\ cr.code = ParseJSON(cr.buildFile.michelson).value
          /\ checked[cr.name] = cr.code
     ELSE /\ cr.vres = "err"
          /\ cr.err = "MalformedCode"
          /\ cr.pc = "failed"

\* C4: a deployContract(C, ...) for a contract the registry holds an address
\* A for requests, once step 1 has let it past, the contract at A from the
\* network and nothing else: it never enters validateContract, never reloads
\* the configuration, never compiles, never originates, and the cache is what
\* it was when the call began; it ends with the handle of A, or, the fetch
\* (or the activation of step 1) having failed, with that error.
C4_PinnedIsOnlyFetched ==
  \A p \in Procs :
     (calls[p].pc # "idle" /\ registry[calls[p].name] # NoAddress) =>
        /\ calls[p].nValidate = 0 /\ calls[p].nConfigReload = 0
        /\ NoValidationWork(calls[p])
        /\ calls[p].nOriginate = 0
        /\ checked = calls[p].cacheStart
        /\ calls[p].cacheEnd = calls[p].cacheStart
        /\ (calls[p].pc \notin {"importKey", "registry"}
            /\ calls[p].err # "ActivationFailed")
             => /\ calls[p].nFetch = 1
                /\ calls[p].fetchAddr = registry[calls[p].name]
        /\ calls[p].pc \in {"importKey", "registry", "fetch", "done", "failed"}
        /\ calls[p].pc = "done" => calls[p].handle = registry[calls[p].name]
        /\ calls[p].pc = "failed"
             => calls[p].err \in {"FetchFailed", "ActivationFailed"}

\* the fetch of a pinned contract has failed and the call with it, while
\* the cache holds the code of another contract
C4_Witness ==
  \E p \in Procs :
     /\ calls[p].pc = "failed"
     /\ registry[calls[p].name] = "KT1A"
     /\ calls[p].err = "FetchFailed"
     /\ calls[p].fetchAddr = "KT1A"
     /\ \E c \in Contracts : checked[c].kind = "array"

\* C5: a validation that finds the hash outdated, reads USE_OLD_BUILD as unset
\* and autoCompile as true starts the compiler exactly once; when the compile
\* has succeeded it goes on to parse the build file it holds and to return,
\* having hashed the source, read the build file and classified it once only.
C5_OneCompileNoRecheck ==
  \A p \in Procs :
     (/\ calls[p].outcome = "INVALID_HASH"
      /\ calls[p].ovUsed = "false"
      /\ calls[p].acUsed = "true") =>
        /\ calls[p].nCompile = 1
        /\ calls[p].nReadSource = 1 /\ calls[p].nReadBuild = 1
        /\ calls[p].nClassify = 1
        /\ \/ calls[p].pc = "compile"
           \/ calls[p].err = "CompileFailed" /\ calls[p].nParse = 0
           \/ calls[p].pc = "outdatedHandled" /\ calls[p].nParse = 0
           \/ ParseOutcome(calls[p])

\* a call has compiled once and returned code
C5_Witness ==
  \E p \in Procs :
     /\ calls[p].outcome = "INVALID_HASH"
     /\ calls[p].ovUsed = "false" /\ calls[p].acUsed = "true"
     /\ calls[p].nCompile = 1
     /\ calls[p].vres = "ok"
     /\ calls[p].code.kind = "array"
     /\ calls[p].nClassify = 1

\* C6: a validation that finds the hash outdated, reads USE_OLD_BUILD as unset
\* and autoCompile as false throws the edited-since-compile error, has not
\* started the compiler, and leaves the false sentinel as the entry of C.
C6_NoAutoCompileFails ==
  \A p \in Procs :
     (/\ calls[p].outcome = "INVALID_HASH"
      /\ calls[p].ovUsed = "false"
      /\ calls[p].acUsed = "false") =>
        /\ calls[p].pc = "failed"
        /\ calls[p].vres = "err"
        /\ calls[p].err = "EditedSinceCompile"
        /\ calls[p].nCompile = 0 /\ calls[p].nParse = 0
        /\ calls[p].cacheEnd[calls[p].name] = CFalse
        /\ checked[calls[p].name] = CFalse

\* the error has been thrown by a call that loaded the configuration itself
C6_Witness ==
  \E p \in Procs :
     /\ calls[p].err = "EditedSinceCompile"
     /\ calls[p].nConfigLoad = 1
     /\ calls[p].nCompile = 0
     /\ checked[calls[p].name] = CFalse

\* C7: a validation that finds the hash outdated and reads USE_OLD_BUILD as
\* set neither starts the compiler nor loads or reads the configuration,
\* whatever autoCompile is; it parses the stale build file and returns and
\* caches its code (MalformedCode if the payload is no JSON).
C7_OverrideUsesStaleBuild ==
  \A p \in Procs :
     (calls[p].outcome = "INVALID_HASH" /\ calls[p].ovUsed = "true") =>
        /\ calls[p].nCompile = 0
        /\ calls[p].nConfigLoad = 0
        /\ calls[p].acUsed = "unread"
        /\ calls[p].buildFile.hash # calls[p].hash
        /\ \/ calls[p].pc = "outdatedHandled" /\ calls[p].nParse = 0
           \/ ParseOutcome(calls[p])

\* stale code was returned although config.json allows compiling
C7_Witness ==
  \E p \in Procs :
     /\ calls[p].outcome = "INVALID_HASH" /\ calls[p].ovUsed = "true"
     /\ calls[p].vres = "ok"
     /\ calls[p].code = JArray(<<"op1">>)
     /\ checked[calls[p].name] = JArray(<<"op1">>)
     /\ cfgFile
     /\ calls[p].envStart.cfgFile

\* C8: the compiler is started for an outdated hash only.  A valid build is
\* parsed and returned at once; a build without michelson and a build from
\* another source path make the validation throw at once; none of the three
\* reads USE_OLD_BUILD or the configuration or starts the compiler.
C8_CompileOnlyOnHashMismatch ==
  \A p \in Procs :
     /\ calls[p].nCompile > 0 => calls[p].outcome = "INVALID_HASH"
     /\ calls[p].outcome \in {"true", "MICHELSON_MISSING", "INVALID_SOURCE_PATH"}
          => /\ calls[p].nCompile = 0 /\ calls[p].nConfigLoad = 0
             /\ calls[p].ovUsed = "unread" /\ calls[p].acUsed = "unread"
     /\ calls[p].outcome = "true" => ParseOutcome(calls[p])
     /\ calls[p].outcome = "MICHELSON_MISSING"
          => /\ calls[p].pc = "failed" /\ calls[p].err = "MichelsonMissing"
             /\ calls[p].vres = "err" /\ calls[p].nParse = 0
     /\ calls[p].outcome = "INVALID_SOURCE_PATH"
          => /\ calls[p].pc = "failed" /\ calls[p].err = "PathMismatch"
             /\ calls[p].vres = "err" /\ calls[p].nParse = 0

\* a build from another path has failed a run that would have compiled
C8_Witness ==
  \E p \in Procs :
     /\ calls[p].outcome = "INVALID_SOURCE_PATH"
     /\ calls[p].err = "PathMismatch"
     /\ calls[p].envStart.cfgFile /\ ~calls[p].envStart.useOldBuild

\* C9: an origination requested by a call whose signer argument is not the
\* default signer is signed by that argument.
C9_CallerSignerOriginates ==
  \A p \in Procs :
     (calls[p].nOriginate = 1 /\ calls[p].signer # defaultSigner) =>
        calls[p].origSigner = calls[p].signer

C11_RegistryNeverWritten ==
  /\ registry = suppliedRegistry
  /\ \A p \in Procs :
        /\ (calls[p].pc = "done" /\ registry[calls[p].name] = NoAddress)
             => /\ calls[p].nOriginate = 1
                /\ calls[p].nFetch = 0
                /\ calls[p].handle = "KT1new"
        /\ (calls[p].deployedAtBegin /\ calls[p].pc \notin {"importKey", "registry"})
             => /\ calls[p].nFetch = 0
                /\ calls[p].nValidate = 1 => calls[p].hit /\ NoValidationWork(calls[p])

\* a second deployContract of the same contract has originated it again
C11_Witness ==
  \E p \in Procs :
     /\ calls[p].deployedAtBegin
     /\ calls[p].pc = "done"
     /\ calls[p].nOriginate = 1
     /\ calls[p].hit
     /\ calls[p].nReadBuild = 0
     /\ registry[calls[p].name] = NoAddress

\* C12: a deployContract(C, ...), whether it returns or throws and wherever it
\* stands, has left the cache entry of every other contract D as it was when
\* the call began; so what was cached for D before a call for C failed is
\* cached for D after it, and is what the next validateContract(D) is served.
C12_OtherEntriesUntouched ==
  \A p \in Procs : \A d \in Contracts :
     (calls[p].pc # "idle" /\ d # calls[p].name) =>
        /\ checked[d] = calls[p].cacheStart[d]
        /\ Terminal(calls[p]) => calls[p].cacheEnd[d] = calls[p].cacheStart[d]
        /\ okCode[d] # CUndefined => CacheHit(checked[d]) /\ checked[d] = okCode[d]

\* a validation of one contract has thrown and left the sentinel while the
\* code of the other, validated before, is still cached
C12_Witness ==
  \E p \in Procs : \E d \in Contracts :
     /\ d # calls[p].name
     /\ calls[p].vres = "err"
     /\ checked[calls[p].name] = CFalse
     /\ calls[p].cacheStart[d].kind = "array"
     /\ checked[d] = calls[p].cacheStart[d]

\* what a call that has failed with error e cannot have done, and what any
\* call has done at most once
NoRetry(cr) ==
  /\ cr.nActivate <= 1 /\ cr.nFetch <= 1 /\ cr.nConfigReload <= 1
  /\ cr.nValidate <= 1 /\ cr.nReadSource <= 1 /\ cr.nReadBuild <= 1
  /\ cr.nConfigLoad <= 1 /\ cr.nCompile <= 1 /\ cr.nParse <= 1
  /\ cr.nOriginate <= 1
  /\ cr.nFetch = 1 => cr.nValidate = 0 /\ cr.nCompile = 0 /\ cr.nOriginate = 0
  /\ cr.err = "ActivationFailed"
       => cr.nFetch = 0 /\ cr.nConfigReload = 0 /\ cr.nValidate = 0
  /\ cr.err \in {"SourceMissing", "NeverCompiled"}
       => cr.nReadSource = 0 /\ cr.nReadBuild = 0
  /\ cr.err \in {"MichelsonMissing", "PathMismatch"}
       => cr.nConfigLoad = 0 /\ cr.nCompile = 0
  /\ cr.err = "EditedSinceCompile" => cr.nCompile = 0
  /\ cr.err \in {"MichelsonMissing", "PathMismatch", "EditedSinceCompile",
                 "CompileFailed"} => cr.nParse = 0
  /\ cr.err \in ValidationErrors \cup {"UnableToProcess"} => cr.nOriginate = 0
  /\ cr.err # "" <=> cr.pc = "failed"

\* a step changes the record of a call that is over only by starting the next
Frozen ==
  \A p \in Procs :
     (Terminal(calls[p]) /\ calls'[p] # calls[p]) =>
        /\ started' = started + 1
        /\ calls'[p].pc \in {"importKey", "registry"}
        /\ calls'[p].nFetch = 0 /\ calls'[p].nCompile = 0
        /\ calls'[p].nOriginate = 0

\* C13: every collaborator call settling in the end, every deployContract
\* call ends, with a handle or with an error; it has asked for the fetch, the
\* compiler and the origination (and every other collaborator) at most once,
\* a call that failed at one step has made none of the calls of the later
\* steps, and nothing more happens in a call that is over.
C13_EndsWithoutRetry ==
  /\ [](\A p \in Procs : NoRetry(calls[p]))
  /\ [][Frozen]_vars
  /\ \A p \in Procs : (calls[p].pc # "idle") ~> Terminal(calls[p])
  /\ [](\A p \in Procs :
          /\ calls[p].pc = "done" => calls[p].handle # NoAddress /\ calls[p].err = ""
          /\ calls[p].pc = "failed" => calls[p].err # "" /\ calls[p].handle = NoAddress)

\* a call has failed at the compiler, having asked for it once and for
\* nothing after it
C13_Witness ==
  \E p \in Procs :
     /\ calls[p].pc = "failed"
     /\ calls[p].err = "CompileFailed"
     /\ calls[p].nCompile = 1
     /\ calls[p].nParse = 0 /\ calls[p].nOriginate = 0

\* C14: when a validation has had the contract recompiled and returns, the
\* code it returns and caches is the code of the build file the compiler
\* has written, not that of the build file read before the compile.
C14_FreshCodeAfterCompile ==
  \A p \in Procs :
     (calls[p].nCompile = 1 /\ calls[p].pc = "validated") =>
        /\ calls[p].code = ParseJSON(build[calls[p].name].michelson).value
        /\ checked[calls[p].name] = ParseJSON(build[calls[p].name].michelson).value

\* a call stands inside validateContract, past the sentinel write of line 76
InValidation(cr) ==
  cr.pc \in {"readContract", "readBuildFile", "loadConfig", "compile",
            "outdatedHandled"}

\* C15: while one call is suspended inside the validation of C, its sentinel
\* written, no other call is inside a validation of C: a second call does
\* not start its own, so at most one read of the build file of C and at most
\* one compile of C are in flight.
C15_SentinelStopsSecond ==
  \A p, q \in Procs :
     (p # q /\ calls[p].name = calls[q].name /\ InValidation(calls[p]))
       => ~InValidation(calls[q])

\* C16: with calls interleaved, a secret-key default signer is activated
\* once, by the first call, which checks and sets the latch without
\* suspending: no call ever waits in a key import and every later call finds
\* the latch set.  Two activations happen only with a faucet default signer,
\* whose key import suspends the call between the check and the latch.
C16_RaceOnlyWithFaucet ==
  /\ activations >= 2 => isFaucet(defaultSigner)
  /\ ~isFaucet(defaultSigner) =>
        /\ activations <= 1
        /\ started >= 1 => isSignerSet /\ activations = 1
        /\ \A p \in Procs :
              /\ calls[p].pc # "importKey"
              /\ \A q \in Procs :
                    (p # q /\ calls[p].pc # "idle" /\ calls[q].pc # "idle")
                      => calls[p].latchAtBegin \/ calls[q].latchAtBegin
  /\ \A p \in Procs : calls[p].pc = "importKey" => ~calls[p].latchAtBegin

\* the faucet account has been activated twice: the second call entered
\* _setSigner while the first was suspended in its key import
C16_Witness ==
  /\ isFaucet(defaultSigner)
  /\ activations = 2
  /\ \A p \in Procs : ~calls[p].latchAtBegin /\ calls[p].nActivate = 1

\* C17: a validation that is not served from the cache throws SourceMissing
\* when the source file is missing, whether or not there is a build file,
\* and NeverCompiled exactly when the source file is there and no build file
\* is; in both cases it has not read the source, computed no hash, not read
\* the build file and not classified it.
C17_PreconditionsInOrder ==
  \A p \in Procs :
     LET cr == calls[p]
         src == cr.envStart.source[cr.name]
         bld == cr.envStart.build[cr.name]
     IN (cr.nValidate = 1 /\ ~cr.hit) =>
          /\ src = NoSource
               => /\ cr.pc = "failed" /\ cr.err = "SourceMissing"
                  /\ cr.nSourceExists = 1 /\ cr.nBuildExists = 0
          /\ (src # NoSource /\ ~bld.present)
               => /\ cr.pc = "failed" /\ cr.err = "NeverCompiled"
                  /\ cr.nSourceExists = 1 /\ cr.nBuildExists = 1
          /\ cr.err = "SourceMissing" => src = NoSource
          /\ cr.err = "NeverCompiled" => src # NoSource /\ ~bld.present
          /\ cr.err \in {"SourceMissing", "NeverCompiled"}
               => /\ cr.nReadSource = 0 /\ cr.hash = ""
                  /\ cr.nReadBuild = 0 /\ cr.buildFile = NoBuild
                  /\ cr.nClassify = 0 /\ cr.outcome = ""
                  /\ cr.nCompile = 0 /\ cr.nParse = 0

\* neither the source nor a build file is there: SourceMissing
C17_Witness ==
  \E p \in Procs :
     /\ calls[p].err = "SourceMissing"
     /\ calls[p].envStart.source[calls[p].name] = NoSource
     /\ ~calls[p].envStart.build[calls[p].name].present
     /\ calls[p].nBuildExists = 0

\* C18: in a run of calls made one after another the configuration is loaded
\* into the module variable at most once, by a validation that finds the
\* hash outdated with USE_OLD_BUILD unset; a call that begins with the
\* configuration loaded never loads it, its reload of step 3 leaves the
\* memoized value as it is, and the autoCompile it goes by is the memoized
\* one, whatever config.json says by then.
C18_ConfigMemoized ==
  \A p \in Procs :
     LET cr == calls[p]
     IN /\ cr.nConfigLoad <= 1
        /\ cr.nConfigLoad = 1
             => /\ ~cr.configAtBegin.loaded
                /\ cr.outcome = "INVALID_HASH" /\ cr.ovUsed = "false"
        /\ (cr.pc # "idle" /\ cr.configAtBegin.loaded)
             => /\ cr.nConfigLoad = 0
                /\ config = cr.configAtBegin
                /\ cr.acUsed = "true" => cr.configAtBegin.autoCompile
                /\ cr.acUsed = "false" => ~cr.configAtBegin.autoCompile
                /\ (cr.outcome = "INVALID_HASH" /\ cr.ovUsed = "false")
                     => cr.acUsed # "unread"
        /\ (cr.pc # "idle" /\ cr.nConfigLoad = 0) => config = cr.configAtBegin

\* the compiler was started on the memoized autoCompile after config.json
\* had been changed to forbid it and step 3 had read it again
C18_Witness ==
  \E p \in Procs :
     /\ calls[p].configAtBegin.loaded
     /\ calls[p].configAtBegin.autoCompile
     /\ ~calls[p].envStart.cfgFile
     /\ calls[p].nConfigReload = 1
     /\ calls[p].outcome = "INVALID_HASH" /\ calls[p].ovUsed = "false"
     /\ calls[p].acUsed = "true"
     /\ calls[p].nCompile = 1

\* C19: USE_OLD_BUILD is fixed for the run: a validation that finds the hash
\* outdated, made after a validation of another contract, goes by the value
\* USE_OLD_BUILD had for that earlier validation, whatever it is by now.
C19_OverrideFixedPerRun ==
  \A p \in Procs : \A c \in Contracts :
     (/\ c # calls[p].name
      /\ prev[c].vres # "none"
      /\ calls[p].outcome = "INVALID_HASH"
      /\ calls[p].ovUsed # "unread")
       => (calls[p].ovUsed = "true" <=> prev[c].envStart.useOldBuild)

\* C20: however the calls interleave, a step that submits an origination for
\* C does so in a call whose validation returned code, while the cache entry
\* of C is a value other than false, and the code it submits is that entry.
C20_OriginatesCachedCode ==
  [][\A p \in Procs :
       calls'[p].nOriginate > calls[p].nOriginate =>
         /\ calls[p].vres = "ok"
         /\ Truthy(calls'[p].origCode)
         /\ checked[calls[p].name] # CFalse
         /\ calls'[p].origCode = checked[calls[p].name]]_vars

====
